---- MODULE Spec2Model ----
(***************************************************************************)
(* Verification model of the photogrammetry-pipeline repository.           *)
(*                                                                         *)
(*   Part 1  Client Poller     frontend/static/js/upload.js                *)
(*           (UploadManager.trackReconstruction / showResults)             *)
(*   Part 2  Job lifecycle of the Reconstruction Service (the service      *)
(*           code is not part of the sources; modelled from the            *)
(*           specification, sections 3, 4.2, 4.3, 5)                       *)
(*   Part 3  scripts/verify-versions.sh                                    *)
(*   Part 4  benchmark.sh                                                  *)
(*   Part 5  setup.sh                                                      *)
(*   Part 6  Viewer3D of upload.js                                         *)
(*   Part 7  UploadManager of upload.js: input selection and submit        *)
(*                                                                         *)
(* Each part has its own specifications (SpecPoller/SpecMulti,             *)
(* SpecJobs/FairJobs, SpecVerify, SpecBench/FairBench, SpecSetup,          *)
(* SpecViewer, SpecUI/SpecSubmit); the variables of the other parts stay  *)
(* at their initial values.                                                *)
(***************************************************************************)
EXTENDS Integers, Sequences, FiniteSets, TLC

VARIABLES
    \* ---- Part 1: Client Poller -------------------------------------
    timer,          \* pollInterval of each trackReconstruction call: "active" | "cleared"
    requests,       \* status requests issued by ticks, in issue order
    srv,            \* service side: per job, the per-tool data
    progressBar,    \* #progress-<tool> style.width, in percent
    statusText,     \* #status-<tool> textContent
    resultsVisible, \* #results-section not hidden
    metricText,     \* #points-/#time-/#memory-<tool> textContent
    viewerModel,    \* model path handed to viewer3D.loadModel per tool
    handled,        \* number of replies the interval callback has consumed
    lastHandled,    \* the reply consumed last
    showCount,      \* history: per poller, the number of showResults calls
    shown,          \* the status object showResults ran on last
    \* ---- Part 2: job lifecycle of the Reconstruction Service --------
    jobs,           \* Job Store: job id -> Job record
    elapsed,        \* wall-clock time a job has been running, in clock steps
    \* ---- Part 3: scripts/verify-versions.sh -------------------------
    remoteHas,      \* check number -> the pinned commit/tag exists upstream
    vvPc,           \* number of the next check; NumChecks + 1 = summary
    performed,      \* numbers of the checks that were run
    failed_checks,  \* the script's counter
    printedFailed,  \* the count printed by the failure summary, -1 if none
    vvExit,         \* exit status of the script, -1 while it runs
    \* ---- Part 4: benchmark.sh ---------------------------------------
    bPc,            \* "check" | "post" | "poll" | "summary" | "done" | "aborted"
    bPair,          \* index of the current (dataset, method) pair
    available,      \* pair -> what check_method_available reported
    posted,         \* pairs for which the reconstruct request was issued
    bStatus,        \* run_benchmark's local status
    resultFile,     \* pair -> status field of <method>_<dataset>_results.json
    summaryWritten, \* benchmark_summary.json was generated
    bJob,           \* pair -> status of its job in the Reconstruction Service
    bExit,          \* exit status of the script, -1 while it runs
    \* ---- Part 5: setup.sh -------------------------------------------
    nvidiaSmi,      \* command -v nvidia-smi succeeds on this host
    baseRunOk,      \* docker run --gpus all nvidia/cuda:11.8-base... succeeds
    cudnnRunOk,     \* docker run --gpus all nvidia/cuda:11.8-cudnn8-devel... succeeds
    sPc,            \* index of the next step of the script
    GPU_SUPPORT,    \* the script's flag
    attempted,      \* services docker compose build was run for
    built,          \* services whose build succeeded
    sExit,          \* exit status of the script, -1 while it runs
    \* ---- Part 6: Viewer3D -------------------------------------------
    viewers,        \* this.viewers: the tools whose container exists
    scene,          \* tool -> placeholder, pointCloud, mesh and overlays
    loads,          \* PLY/OBJ loader requests in flight
    lastLoad,       \* history: tool -> path and outcome of the latest load
    \* ---- Part 7: UploadManager selection and submit ------------------
    pondFiles,      \* this.pond.getFiles().length
    pondEvent,      \* an addfile/removefile event of FilePond is not yet delivered
    selectedDataset,    \* this.selectedDataset
    selectedResolution, \* this.selectedResolution
    checkedTools,   \* input[name="tools"]:checked
    startDisabled,  \* #start-reconstruction .disabled
    uploadArea,     \* content of #upload-area
    listings,       \* GET /api/dataset/<d>/<r> requests in flight
    posts,          \* POST /api/reconstruct payloads in flight
    alerts          \* number of alert('Failed to start reconstruction...') shown

pollerVars == <<timer, requests, srv, progressBar, statusText, resultsVisible,
                metricText, viewerModel, handled, lastHandled, showCount, shown>>

jobVars == <<jobs, elapsed>>

verifyVars == <<remoteHas, vvPc, performed, failed_checks, printedFailed, vvExit>>

benchVars == <<bPc, bPair, available, posted, bStatus, resultFile, summaryWritten,
               bJob, bExit>>

setupVars == <<nvidiaSmi, baseRunOk, cudnnRunOk, sPc, GPU_SUPPORT, attempted,
               built, sExit>>

viewerVars == <<viewers, scene, loads, lastLoad>>

uiVars == <<pondFiles, pondEvent, selectedDataset, selectedResolution,
            checkedTools, startDisabled, uploadArea, listings, posts, alerts>>

vars == <<pollerVars, jobVars, verifyVars, benchVars, setupVars, viewerVars,
          uiVars>>

--------------------------------------------------------------------------
(* Part 1: Client Poller                                                   *)

\* Bounds of the model.
MaxTicks == 2

\* The tools of the tracked job: two of the tools the page has elements for
\* ('COLMAP', 'OpenMVS', 'PMVS2', 'AliceVision', 'OpenSfM').
Tools == {"COLMAP", "OpenMVS"}

ProgressStep == 50

ErrorTexts == {"tool exited with code 1"}

NoMetrics == [present |-> FALSE, points |-> 0, processingTime |-> 0, memoryUsed |-> 0]

MetricsChoices ==
    {NoMetrics,
     [present |-> TRUE, points |-> 1000, processingTime |-> 12, memoryUsed |-> 0]}

OutputFiles == {"mesh.ply"}

NoReply == [kind |-> "none"]

\* The per-tool entry of a status snapshot.
ToolData(st, p, e, o, m) ==
    [status |-> st, progress |-> p, error |-> e, output |-> o, metrics |-> m]

\* Mutation of allComplete: an empty tools map does not count as complete.
allComplete_NonEmpty(tools) ==
    /\ DOMAIN tools # {}
    /\ \A t \in DOMAIN tools : tools[t].status = "completed" \/ tools[t].status = "failed"

\* every(tool => tool.status === 'completed' || tool.status === 'failed')
allComplete(tools) ==
    \A t \in DOMAIN tools : tools[t].status = "completed" \/ tools[t].status = "failed"

\* The callback reaches its catch block: fetch() rejected, response.json()
\* rejected, or Object.entries(status.tools) threw on a missing tools field.
Throws(reply) == reply.kind \in {"neterr", "badjson", "notools"}

IsTerminalReply(reply) == reply.kind = "ok" /\ allComplete(reply.tools)

\* JavaScript `value || 'N/A'` followed by the assignment to textContent.
OrNA(m, v) == IF m.present /\ v # 0 THEN ToString(v) ELSE "N/A"

MetricTexts(m) ==
    [points |-> OrNA(m, m.points),
     time   |-> OrNA(m, m.processingTime),
     memory |-> OrNA(m, m.memoryUsed)]

BlankMetricTexts == [points |-> "", time |-> "", memory |-> ""]

\* The job-level status field of a snapshot.  The service is not among the
\* sources: for a job with tools the field follows the tools, for a job
\* without tools any status may be reported.
JobLevelStatuses(tools) ==
    IF DOMAIN tools = {} THEN {"queued", "running", "completed", "failed"}
    ELSE IF allComplete(tools)
         THEN IF \E t \in DOMAIN tools : tools[t].status = "completed"
              THEN {"completed"} ELSE {"failed"}
         ELSE IF \A t \in DOMAIN tools : tools[t].status = "queued"
              THEN {"queued"} ELSE {"running"}

\* A job as the service creates it, with one queued entry per requested tool.
QueuedJob(toolset) == [t \in toolset |-> ToolData("queued", 0, "", "", NoMetrics)]

\* The page before any reconstruction was started; timer[j] is the interval
\* of the j-th trackReconstruction call, srv[j] the job it polls.
PollerIdle ==
    /\ timer = <<>>
    /\ requests = <<>>
    /\ progressBar = [t \in Tools |-> 0]
    /\ statusText = [t \in Tools |-> "Starting..."]
    /\ resultsVisible = FALSE
    /\ metricText = [t \in Tools |-> BlankMetricTexts]
    /\ viewerModel = [t \in Tools |-> ""]
    /\ handled = 0
    /\ lastHandled = NoReply
    /\ showCount = <<>>
    /\ shown = NoReply

PollerOff == PollerIdle /\ srv = <<>>

\* ---- the service as seen by the poller (environment) ----

SrvStart(j, t) ==
    /\ srv[j][t].status = "queued"
    /\ srv' = [srv EXCEPT ![j][t].status = "running"]
    /\ UNCHANGED <<jobVars, verifyVars, benchVars, setupVars, viewerVars, uiVars>>
    /\ UNCHANGED <<timer, requests, progressBar, statusText, resultsVisible,
                   metricText, viewerModel, handled, lastHandled, showCount, shown>>

SrvProgress(j, t) ==
    /\ srv[j][t].status = "running"
    /\ srv[j][t].progress + ProgressStep <= 100
    /\ srv' = [srv EXCEPT ![j][t].progress = @ + ProgressStep]
    /\ UNCHANGED <<jobVars, verifyVars, benchVars, setupVars, viewerVars, uiVars>>
    /\ UNCHANGED <<timer, requests, progressBar, statusText, resultsVisible,
                   metricText, viewerModel, handled, lastHandled, showCount, shown>>

SrvComplete(j, t) ==
    /\ srv[j][t].status = "running"
    /\ \E m \in MetricsChoices, o \in OutputFiles :
         srv' = [srv EXCEPT ![j][t] = ToolData("completed", 100, "", o, m)]
    /\ UNCHANGED <<jobVars, verifyVars, benchVars, setupVars, viewerVars, uiVars>>
    /\ UNCHANGED <<timer, requests, progressBar, statusText, resultsVisible,
                   metricText, viewerModel, handled, lastHandled, showCount, shown>>

SrvFail(j, t) ==
    /\ srv[j][t].status \in {"queued", "running"}
    /\ \E e \in ErrorTexts :
         srv' = [srv EXCEPT ![j][t].status = "failed", ![j][t].error = e]
    /\ UNCHANGED <<jobVars, verifyVars, benchVars, setupVars, viewerVars, uiVars>>
    /\ UNCHANGED <<timer, requests, progressBar, statusText, resultsVisible,
                   metricText, viewerModel, handled, lastHandled, showCount, shown>>

\* ---- UploadManager ----

\* Mutation of StartTimer: one shared interval, the earlier pollers are
\* cancelled when a new one starts.
StartTimer_Shared ==
    /\ timer' = Append([j \in DOMAIN timer |-> "cleared"], "active")
    /\ showCount' = Append(showCount, 0)

\* const pollInterval = setInterval(..., 2000): a new interval of its own
\* (a local of this call), the existing ones are not touched.
StartTimer ==
    /\ timer' = Append(timer, "active")
    /\ showCount' = Append(showCount, 0)

\* trackReconstruction(jobId) for the next job the service has accepted.
trackReconstruction ==
    /\ Len(timer) < Len(srv)
    /\ StartTimer
    /\ UNCHANGED <<jobVars, verifyVars, benchVars, setupVars, viewerVars, uiVars>>
    /\ UNCHANGED <<requests, srv, progressBar, statusText, resultsVisible,
                   metricText, viewerModel, handled, lastHandled, shown>>

\* A timer tick of poller j runs the callback up to its first await: fetch
\* is issued.
Tick(j) ==
    /\ timer[j] = "active"
    /\ Len(requests) < MaxTicks
    /\ requests' = Append(requests, [job |-> j, phase |-> "sent", reply |-> NoReply])
    /\ UNCHANGED <<jobVars, verifyVars, benchVars, setupVars, viewerVars, uiVars>>
    /\ UNCHANGED <<timer, srv, progressBar, statusText, resultsVisible,
                   metricText, viewerModel, handled, lastHandled, showCount, shown>>

\* The replies fetch()/response.json() can settle with for a request about
\* job j that reaches (or fails to reach) the service now; "notools" is a
\* snapshot without the optional tools field.
Replies(j) ==
    {[kind |-> "ok", job |-> j, status |-> st, tools |-> srv[j]] :
        st \in JobLevelStatuses(srv[j])}
    \cup {[kind |-> "neterr", job |-> j], [kind |-> "badjson", job |-> j]}
    \cup {[kind |-> "notools", job |-> j, status |-> st] :
        st \in JobLevelStatuses(srv[j])}

Respond(i) ==
    /\ i \in DOMAIN requests
    /\ requests[i].phase = "sent"
    /\ \E r \in Replies(requests[i].job) :
         requests' = [requests EXCEPT ![i].phase = "replied", ![i].reply = r]
    /\ UNCHANGED <<jobVars, verifyVars, benchVars, setupVars, viewerVars, uiVars>>
    /\ UNCHANGED <<timer, srv, progressBar, statusText, resultsVisible,
                   metricText, viewerModel, handled, lastHandled, showCount, shown>>

\* showResults(status)
showResults(status) ==
    /\ resultsVisible' = TRUE
    /\ metricText' = [t \in Tools |->
          IF t \in DOMAIN status.tools /\ status.tools[t].status = "completed"
          THEN MetricTexts(status.tools[t].metrics) ELSE metricText[t]]
    /\ viewerModel' = [t \in Tools |->
          IF t \in DOMAIN status.tools /\ status.tools[t].status = "completed"
          THEN status.tools[t].output ELSE viewerModel[t]]
    /\ showCount' = [showCount EXCEPT ![status.job] = @ + 1]
    /\ shown' = status

\* catch (error) { console.error(...); clearInterval(pollInterval); }
CatchClear(j) == [timer EXCEPT ![j] = "cleared"]

\* Mutation of TimerAfter: the clearInterval call of the terminal branch is lost.
TimerAfter_NoClear(reply) == timer

\* if (allComplete) { clearInterval(pollInterval); this.showResults(status); }
TimerAfter(reply) ==
    IF allComplete(reply.tools) THEN [timer EXCEPT ![reply.job] = "cleared"] ELSE timer

\* The rest of the interval callback, run when the awaited reply arrives.
HandleReply(i) ==
    /\ i \in DOMAIN requests
    /\ requests[i].phase = "replied"
    /\ LET reply == requests[i].reply IN
         /\ requests' = [requests EXCEPT ![i].phase = "handled", ![i].reply = NoReply]
         /\ handled' = handled + 1
         /\ lastHandled' = reply
         /\ IF Throws(reply)
            THEN /\ timer' = CatchClear(reply.job)
                 /\ UNCHANGED <<progressBar, statusText, resultsVisible,
                                metricText, viewerModel, showCount, shown>>
            ELSE /\ progressBar' = [t \in Tools |->
                       IF t \in DOMAIN reply.tools THEN reply.tools[t].progress
                       ELSE progressBar[t]]
                 /\ statusText' = [t \in Tools |->
                       IF t \in DOMAIN reply.tools THEN reply.tools[t].status
                       ELSE statusText[t]]
                 /\ timer' = TimerAfter(reply)
                 /\ IF allComplete(reply.tools)
                    THEN showResults(reply)
                    ELSE UNCHANGED <<resultsVisible, metricText, viewerModel,
                                     showCount, shown>>
    /\ UNCHANGED srv
    /\ UNCHANGED <<jobVars, verifyVars, benchVars, setupVars, viewerVars, uiVars>>

--------------------------------------------------------------------------
(* Part 2: job lifecycle of the Reconstruction Service.                    *)
(* The service (core API, port 5000) is driven by benchmark.sh and         *)
(* upload.js but its code is not among the sources; the lifecycle below is *)
(* taken from the specification (sections 3, 4.2, 4.3, 5, 7).              *)

\* Bounds of the model.
NumJobs == 3
ClockStep == 3600

\* README.md, Resource limits
MAX_CONCURRENT_JOBS == 2
JOB_TIMEOUT == 7200

JobIds == 1..NumJobs

\* The timeout in clock steps.
TimeoutSteps == JOB_TIMEOUT \div ClockStep

NoJob == [status |-> "none", progress |-> 0, output |-> "", error |-> ""]

Running == {j \in JobIds : jobs[j].status = "running"}

IsTerminal(j) == jobs[j].status \in {"completed", "failed"}

\* getStatus(job_id): a read-only snapshot of the Job record.
getStatus(j) == IF jobs[j].status = "none" THEN [error |-> "NotFoundError"] ELSE jobs[j]

JobsIdle ==
    /\ jobs = [j \in JobIds |-> NoJob]
    /\ elapsed = [j \in JobIds |-> 0]

\* submit(input, method, parameters): a valid submission creates the Job
\* record with status queued.  (A rejected submission creates no record and
\* changes nothing.)
submit(j) ==
    /\ jobs[j].status = "none"
    /\ jobs' = [jobs EXCEPT ![j].status = "queued"]
    /\ UNCHANGED elapsed
    /\ UNCHANGED <<pollerVars, verifyVars, benchVars, setupVars, viewerVars, uiVars>>

\* Mutation of start: the concurrent-jobs ceiling is not enforced.
start_NoCeiling(j) ==
    /\ jobs[j].status = "queued"
    /\ jobs' = [jobs EXCEPT ![j].status = "running"]
    /\ elapsed' = [elapsed EXCEPT ![j] = 0]
    /\ UNCHANGED <<pollerVars, verifyVars, benchVars, setupVars, viewerVars, uiVars>>

\* Engine Adapter start(job): a queued job enters running when a slot of the
\* concurrent-jobs ceiling is free.
start(j) ==
    /\ jobs[j].status = "queued"
    /\ Cardinality(Running) < MAX_CONCURRENT_JOBS
    /\ jobs' = [jobs EXCEPT ![j].status = "running"]
    /\ elapsed' = [elapsed EXCEPT ![j] = 0]
    /\ UNCHANGED <<pollerVars, verifyVars, benchVars, setupVars, viewerVars, uiVars>>

\* LaunchError / GpuRequiredError: the container cannot be created.
launchError(j) ==
    /\ jobs[j].status = "queued"
    /\ jobs' = [jobs EXCEPT ![j].status = "failed", ![j].error = "launch failed"]
    /\ UNCHANGED elapsed
    /\ UNCHANGED <<pollerVars, verifyVars, benchVars, setupVars, viewerVars, uiVars>>

\* Progress reporting through the Job Store's update.
reportProgress(j) ==
    /\ jobs[j].status = "running"
    /\ jobs[j].progress + ProgressStep <= 100
    /\ jobs' = [jobs EXCEPT ![j].progress = @ + ProgressStep]
    /\ UNCHANGED elapsed
    /\ UNCHANGED <<pollerVars, verifyVars, benchVars, setupVars, viewerVars, uiVars>>

\* Completion: status=completed with output_ref.
complete(j) ==
    /\ jobs[j].status = "running"
    /\ jobs' = [jobs EXCEPT ![j].status = "completed", ![j].progress = 100,
                            ![j].output = "mesh.ply"]
    /\ UNCHANGED elapsed
    /\ UNCHANGED <<pollerVars, verifyVars, benchVars, setupVars, viewerVars, uiVars>>

\* Tool failure: status=failed with the captured error.
toolFailure(j) ==
    /\ jobs[j].status = "running"
    /\ jobs' = [jobs EXCEPT ![j].status = "failed", ![j].error = "tool failed"]
    /\ UNCHANGED elapsed
    /\ UNCHANGED <<pollerVars, verifyVars, benchVars, setupVars, viewerVars, uiVars>>

\* Wall-clock time passes for a running job.
clockTick(j) ==
    /\ jobs[j].status = "running"
    /\ elapsed[j] < TimeoutSteps
    /\ elapsed' = [elapsed EXCEPT ![j] = @ + 1]
    /\ UNCHANGED jobs
    /\ UNCHANGED <<pollerVars, verifyVars, benchVars, setupVars, viewerVars, uiVars>>

\* Mutation of timeout: the expiry test is off by one and never becomes true.
timeout_OffByOne(j) ==
    /\ jobs[j].status = "running"
    /\ elapsed[j] > TimeoutSteps
    /\ jobs' = [jobs EXCEPT ![j].status = "failed", ![j].error = "timeout"]
    /\ UNCHANGED elapsed
    /\ UNCHANGED <<pollerVars, verifyVars, benchVars, setupVars, viewerVars, uiVars>>

\* On expiry of the timeout the adapter forces the failed transition.
timeout(j) ==
    /\ jobs[j].status = "running"
    /\ elapsed[j] >= TimeoutSteps
    /\ jobs' = [jobs EXCEPT ![j].status = "failed", ![j].error = "timeout"]
    /\ UNCHANGED elapsed
    /\ UNCHANGED <<pollerVars, verifyVars, benchVars, setupVars, viewerVars, uiVars>>

\* Mutation of cancel: the status of the job is not looked at.
cancel_AnyStatus(j) ==
    /\ jobs[j].status # "none"
    /\ jobs' = [jobs EXCEPT ![j].status = "failed", ![j].error = "cancelled"]
    /\ UNCHANGED elapsed
    /\ UNCHANGED <<pollerVars, verifyVars, benchVars, setupVars, viewerVars, uiVars>>

\* cancel(job_id): the forced-failure path; terminal states have no
\* outgoing transitions.
cancel(j) ==
    /\ jobs[j].status \in {"queued", "running"}
    /\ jobs' = [jobs EXCEPT ![j].status = "failed", ![j].error = "cancelled"]
    /\ UNCHANGED elapsed
    /\ UNCHANGED <<pollerVars, verifyVars, benchVars, setupVars, viewerVars, uiVars>>

NextJobs ==
    \/ \E j \in JobIds : submit(j)
    \/ \E j \in JobIds : start(j)
    \/ \E j \in JobIds : launchError(j)
    \/ \E j \in JobIds : reportProgress(j)
    \/ \E j \in JobIds : complete(j)
    \/ \E j \in JobIds : toolFailure(j)
    \/ \E j \in JobIds : clockTick(j)
    \/ \E j \in JobIds : timeout(j)
    \/ \E j \in JobIds : cancel(j)

--------------------------------------------------------------------------
(* Part 3: scripts/verify-versions.sh (runs under set -e)                  *)

\* The pinned versions, in the order the script checks them.
Checks == <<"OpenMVG c92ed1be", "OpenMVS", "COLMAP", "Instant-NGP",
            "3D Gaussian Splatting", "MobileNeRF", "PIFuHD">>

NumChecks == Len(Checks)

\* check_commit / check_tag: return 0 iff git ls-remote lists the commit/tag.
check_ref(i) == IF remoteHas[i] THEN 0 ELSE 1

\* Exit status of the arithmetic command ((failed_checks++)): 1 when the
\* expression's value, the counter before the increment, is 0.
ArithStatus(old) == IF old = 0 THEN 1 ELSE 0

VerifyIdle ==
    /\ vvPc = 1
    /\ performed = {}
    /\ failed_checks = 0
    /\ printedFailed = -1
    /\ vvExit = -1

VerifyOff == VerifyIdle /\ remoteHas = [i \in 1..NumChecks |-> TRUE]

\* Mutation of checkOpenMVG: the failing check does not end the script
\* (no errexit).
checkOpenMVG_NoErrexit ==
    /\ vvExit = -1
    /\ vvPc = 1
    /\ performed' = performed \cup {1}
    /\ vvPc' = 2
    /\ UNCHANGED <<remoteHas, failed_checks, printedFailed, vvExit>>
    /\ UNCHANGED <<pollerVars, jobVars, benchVars, setupVars, viewerVars, uiVars>>

\* Line 53: check_commit ... "OpenMVG c92ed1be" as a plain command: under
\* set -e its non-zero return ends the script with that status.
checkOpenMVG ==
    /\ vvExit = -1
    /\ vvPc = 1
    /\ performed' = performed \cup {1}
    /\ IF check_ref(1) = 0
       THEN vvPc' = 2 /\ UNCHANGED vvExit
       ELSE vvExit' = check_ref(1) /\ UNCHANGED vvPc
    /\ UNCHANGED <<remoteHas, failed_checks, printedFailed>>
    /\ UNCHANGED <<pollerVars, jobVars, benchVars, setupVars, viewerVars, uiVars>>

\* Lines 56-75: check_x ... || ((failed_checks++)).  The list's status is that
\* of its last command run; when that is ((failed_checks++)) and non-zero,
\* set -e ends the script with it.
checkCounted ==
    /\ vvExit = -1
    /\ vvPc \in 2..NumChecks
    /\ performed' = performed \cup {vvPc}
    /\ IF check_ref(vvPc) = 0
       THEN /\ vvPc' = vvPc + 1
            /\ UNCHANGED <<failed_checks, vvExit>>
       ELSE /\ failed_checks' = failed_checks + 1
            /\ IF ArithStatus(failed_checks) = 0
               THEN vvPc' = vvPc + 1 /\ UNCHANGED vvExit
               ELSE vvExit' = ArithStatus(failed_checks) /\ UNCHANGED vvPc
    /\ UNCHANGED <<remoteHas, printedFailed>>
    /\ UNCHANGED <<pollerVars, jobVars, benchVars, setupVars, viewerVars, uiVars>>

\* Lines 80-89: the summary.
summary ==
    /\ vvExit = -1
    /\ vvPc = NumChecks + 1
    /\ IF failed_checks = 0
       THEN vvExit' = 0 /\ UNCHANGED printedFailed
       ELSE vvExit' = 1 /\ printedFailed' = failed_checks
    /\ UNCHANGED <<remoteHas, vvPc, performed, failed_checks>>
    /\ UNCHANGED <<pollerVars, jobVars, benchVars, setupVars, viewerVars, uiVars>>

NextVerify == checkOpenMVG \/ checkCounted \/ summary

--------------------------------------------------------------------------
(* Part 4: benchmark.sh (runs under set -e)                                *)

\* Bounds of the model: the leading datasets and methods the loops run over.
BenchDatasets == 2
BenchMethods == 2

METHODS == <<"meshroom", "colmap", "openmvg", "instant-ngp",
             "gaussian-splatting", "mobilenerf", "pifuhd">>

DATASETS == <<"bicycle", "bonsai", "counter", "flowers", "garden", "kitchen",
              "treehill">>

\* The (dataset, method) pairs in loop order: datasets outer, methods inner.
NumPairs == BenchDatasets * BenchMethods

Pairs == 1..NumPairs

PairOf(n) == [dataset |-> DATASETS[((n - 1) \div BenchMethods) + 1],
              method  |-> METHODS[((n - 1) % BenchMethods) + 1]]

\* Job statuses of the Reconstruction Service; "none": it holds no job
\* under the job_id of the pair.
NonTerminal == {"queued", "running"}

Terminal == {"completed", "failed"}

\* What a poll of /status/<job_id> can yield once piped through the python
\* one-liner: the status of the job, or nothing because the request failed
\* or the body was not JSON with a status field (always so for an unknown
\* job).
PollReplies ==
    (IF bJob[bPair] = "none" THEN {} ELSE {bJob[bPair]}) \cup {"garbage"}

\* Mutation of KeepPolling: the loop ends as soon as the job has left the
\* queue.
KeepPolling_OnlyQueued(st) == st = "queued"

\* [ "$status" != "completed" ] && [ "$status" != "failed" ]
KeepPolling(st) == st # "completed" /\ st # "failed"

BenchIdle ==
    /\ bPc = "check"
    /\ bPair = 1
    /\ available = [n \in Pairs |-> "unchecked"]
    /\ posted = {}
    /\ bStatus = "queued"
    /\ resultFile = [n \in Pairs |-> "none"]
    /\ summaryWritten = FALSE
    /\ bJob = [n \in Pairs |-> "none"]
    /\ bExit = -1

\* The inner loop moves on to the next pair, or the loops end.
AfterPair(n) == IF n < NumPairs THEN "check" ELSE "summary"

\* if check_method_available "$method"; then run_benchmark ... else skip
checkMethodAvailable ==
    /\ bPc = "check"
    /\ \E up \in BOOLEAN :
         /\ available' = [available EXCEPT ![bPair] = IF up THEN "up" ELSE "down"]
         /\ IF up
            THEN bPc' = "post" /\ UNCHANGED bPair
            ELSE bPc' = AfterPair(bPair) /\ bPair' = bPair + 1
    /\ UNCHANGED <<posted, bStatus, resultFile, summaryWritten, bJob, bExit>>
    /\ UNCHANGED <<pollerVars, jobVars, verifyVars, setupVars, viewerVars, uiVars>>

\* run_benchmark, lines 31-38: curl -X POST .../reconstruct as a plain
\* command.  The service creates the job (queued), or answers with an error
\* status, which curl without -f reports as success; a non-zero exit of curl
\* (no connection, or the connection lost with the request already accepted)
\* ends the script (set -e).  Then local status="queued".
postReconstruct ==
    /\ bPc = "post"
    /\ posted' = posted \cup {bPair}
    /\ \E outcome \in {"created", "rejected", "curlFailed", "replyLost"} :
         /\ bPc' = IF outcome \in {"curlFailed", "replyLost"}
                   THEN "aborted" ELSE "poll"
         /\ bExit' = IF outcome \in {"curlFailed", "replyLost"} THEN 1 ELSE bExit
         /\ bJob' = IF outcome \in {"created", "replyLost"}
                    THEN [bJob EXCEPT ![bPair] = "queued"] ELSE bJob
    /\ bStatus' = "queued"
    /\ UNCHANGED <<bPair, available, resultFile, summaryWritten>>
    /\ UNCHANGED <<pollerVars, jobVars, verifyVars, setupVars, viewerVars, uiVars>>

\* The Reconstruction Service moves a queued job to running.
benchJobStart(n) ==
    /\ bJob[n] = "queued"
    /\ bJob' = [bJob EXCEPT ![n] = "running"]
    /\ UNCHANGED <<bPc, bPair, available, posted, bStatus, resultFile,
                   summaryWritten, bExit>>
    /\ UNCHANGED <<pollerVars, jobVars, verifyVars, setupVars, viewerVars, uiVars>>

\* The job ends: a running job completes or fails, a queued one fails
\* (launch error, cancel).  Terminal statuses are final.
benchJobFinish(n) ==
    /\ bJob[n] \in NonTerminal
    /\ \E st \in Terminal :
         /\ st = "completed" => bJob[n] = "running"
         /\ bJob' = [bJob EXCEPT ![n] = st]
    /\ UNCHANGED <<bPc, bPair, available, posted, bStatus, resultFile,
                   summaryWritten, bExit>>
    /\ UNCHANGED <<pollerVars, jobVars, verifyVars, setupVars, viewerVars, uiVars>>

\* Mutation of pollStatus: without errexit the failed assignment leaves
\* status empty and the loop goes on.
pollStatus_NoErrexit ==
    /\ bPc = "poll"
    /\ KeepPolling(bStatus)
    /\ \E reply \in PollReplies :
         bStatus' = IF reply = "garbage" THEN "" ELSE reply
    /\ UNCHANGED <<bPc, bPair, available, posted, resultFile, summaryWritten,
                   bJob, bExit>>
    /\ UNCHANGED <<pollerVars, jobVars, verifyVars, setupVars, viewerVars, uiVars>>

\* One iteration of the polling loop, lines 39-44: there is no counter and
\* no clock in it.  local response=$(curl ...) hides a failure of curl; the
\* assignment status=$(... python3 ...) fails when the reply has no status
\* (python exits 1), and set -e ends the script with that status.
pollStatus ==
    /\ bPc = "poll"
    /\ KeepPolling(bStatus)
    /\ \E reply \in PollReplies :
         IF reply = "garbage"
         THEN bPc' = "aborted" /\ bStatus' = "" /\ bExit' = 1
         ELSE bStatus' = reply /\ UNCHANGED <<bPc, bExit>>
    /\ UNCHANGED <<bPair, available, posted, resultFile, summaryWritten, bJob>>
    /\ UNCHANGED <<pollerVars, jobVars, verifyVars, setupVars, viewerVars, uiVars>>

\* Mutation of recordResult: the loop gives up on its own, whatever the
\* last status was.
recordResult_GivesUp ==
    /\ bPc = "poll"
    /\ resultFile' = [resultFile EXCEPT ![bPair] = bStatus]
    /\ bPc' = AfterPair(bPair)
    /\ bPair' = bPair + 1
    /\ UNCHANGED <<available, posted, bStatus, summaryWritten, bJob, bExit>>
    /\ UNCHANGED <<pollerVars, jobVars, verifyVars, setupVars, viewerVars, uiVars>>

\* Lines 46-64: the loop has ended; the result file is written.
recordResult ==
    /\ bPc = "poll"
    /\ ~KeepPolling(bStatus)
    /\ resultFile' = [resultFile EXCEPT ![bPair] = bStatus]
    /\ bPc' = AfterPair(bPair)
    /\ bPair' = bPair + 1
    /\ UNCHANGED <<available, posted, bStatus, summaryWritten, bJob, bExit>>
    /\ UNCHANGED <<pollerVars, jobVars, verifyVars, setupVars, viewerVars, uiVars>>

\* Lines 92-146: the summary report; the script ends with status 0.
generateSummary ==
    /\ bPc = "summary"
    /\ summaryWritten' = TRUE
    /\ bPc' = "done"
    /\ bExit' = 0
    /\ UNCHANGED <<bPair, available, posted, bStatus, resultFile, bJob>>
    /\ UNCHANGED <<pollerVars, jobVars, verifyVars, setupVars, viewerVars, uiVars>>

NextBench ==
    \/ checkMethodAvailable
    \/ postReconstruct
    \/ \E n \in Pairs : benchJobStart(n)
    \/ \E n \in Pairs : benchJobFinish(n)
    \/ pollStatus
    \/ recordResult
    \/ generateSummary

--------------------------------------------------------------------------
(* Part 5: setup.sh (runs under set -e)                                    *)

CpuEngines == {"meshroom", "colmap", "openmvg", "mobilenerf"}

GpuEngines == {"instant-ngp", "gaussian-splatting", "pifuhd"}

\* The steps of the script in order; an engine name stands for its
\* docker compose build.
SetupSteps == <<"prereq", "detect", "core", "cudnn", "meshroom", "colmap",
                "openmvg", "instant-ngp", "gaussian-splatting", "pifuhd",
                "mobilenerf", "up", "ps">>

SetupStep == IF sPc \in DOMAIN SetupSteps THEN SetupSteps[sPc] ELSE "end"

SetupIdle ==
    /\ sPc = 1
    /\ GPU_SUPPORT = FALSE
    /\ attempted = {}
    /\ built = {}
    /\ sExit = -1

SetupOff == SetupIdle /\ nvidiaSmi = FALSE /\ baseRunOk = FALSE /\ cudnnRunOk = FALSE

\* Lines 10-22: docker and docker compose must be installed, else exit 1.
prereqCheck ==
    /\ sExit = -1 /\ SetupStep = "prereq"
    /\ \E installed \in BOOLEAN :
         IF installed THEN sPc' = sPc + 1 /\ UNCHANGED sExit
                      ELSE sExit' = 1 /\ UNCHANGED sPc
    /\ UNCHANGED <<nvidiaSmi, baseRunOk, cudnnRunOk, GPU_SUPPORT, attempted, built>>
    /\ UNCHANGED <<pollerVars, jobVars, verifyVars, benchVars, viewerVars, uiVars>>

\* Lines 24-56: GPU_SUPPORT=true only with nvidia-smi present and the GPU run
\* of the CUDA base image succeeding.  (Lines 58-71 only print.)
detectGPU ==
    /\ sExit = -1 /\ SetupStep = "detect"
    /\ GPU_SUPPORT' = (nvidiaSmi /\ baseRunOk)
    /\ sPc' = sPc + 1
    /\ UNCHANGED <<nvidiaSmi, baseRunOk, cudnnRunOk, attempted, built, sExit>>
    /\ UNCHANGED <<pollerVars, jobVars, verifyVars, benchVars, viewerVars, uiVars>>

\* Mutation of testCudnnImage: the failed test only prints, line 93 is lost.
testCudnnImage_KeepsFlag ==
    /\ sExit = -1 /\ SetupStep = "cudnn"
    /\ sPc' = sPc + 1
    /\ UNCHANGED <<nvidiaSmi, baseRunOk, cudnnRunOk, GPU_SUPPORT, attempted, built, sExit>>
    /\ UNCHANGED <<pollerVars, jobVars, verifyVars, benchVars, viewerVars, uiVars>>

\* Lines 84-95: with GPU_SUPPORT, a failing GPU run of the cudnn-devel image
\* resets GPU_SUPPORT=false.
testCudnnImage ==
    /\ sExit = -1 /\ SetupStep = "cudnn"
    /\ GPU_SUPPORT' = IF GPU_SUPPORT /\ ~cudnnRunOk THEN FALSE ELSE GPU_SUPPORT
    /\ sPc' = sPc + 1
    /\ UNCHANGED <<nvidiaSmi, baseRunOk, cudnnRunOk, attempted, built, sExit>>
    /\ UNCHANGED <<pollerVars, jobVars, verifyVars, benchVars, viewerVars, uiVars>>

\* Lines 82, 101, 104, 107, 156: docker compose build as a plain command; a
\* failing build ends the script (set -e).
buildRequired ==
    /\ sExit = -1 /\ SetupStep \in CpuEngines \cup {"core"}
    /\ attempted' = attempted \cup {SetupStep}
    /\ \E ok \in BOOLEAN :
         IF ok THEN built' = built \cup {SetupStep} /\ sPc' = sPc + 1 /\ UNCHANGED sExit
               ELSE sExit' = 1 /\ UNCHANGED <<built, sPc>>
    /\ UNCHANGED <<nvidiaSmi, baseRunOk, cudnnRunOk, GPU_SUPPORT>>
    /\ UNCHANGED <<pollerVars, jobVars, verifyVars, benchVars, viewerVars, uiVars>>

\* Lines 109-152: the neural engines are built inside if-conditions, only
\* with GPU_SUPPORT; a failing build is reported and the script goes on.
buildGpuEngine ==
    /\ sExit = -1 /\ SetupStep \in GpuEngines
    /\ IF GPU_SUPPORT
       THEN /\ attempted' = attempted \cup {SetupStep}
            /\ \E ok \in BOOLEAN :
                 built' = IF ok THEN built \cup {SetupStep} ELSE built
       ELSE UNCHANGED <<attempted, built>>
    /\ sPc' = sPc + 1
    /\ UNCHANGED <<nvidiaSmi, baseRunOk, cudnnRunOk, GPU_SUPPORT, sExit>>
    /\ UNCHANGED <<pollerVars, jobVars, verifyVars, benchVars, viewerVars, uiVars>>

\* Line 160: docker compose up -d web core redis.
startServices ==
    /\ sExit = -1 /\ SetupStep = "up"
    /\ \E ok \in BOOLEAN :
         IF ok THEN sPc' = sPc + 1 /\ UNCHANGED sExit
               ELSE sExit' = 1 /\ UNCHANGED sPc
    /\ UNCHANGED <<nvidiaSmi, baseRunOk, cudnnRunOk, GPU_SUPPORT, attempted, built>>
    /\ UNCHANGED <<pollerVars, jobVars, verifyVars, benchVars, viewerVars, uiVars>>

\* Lines 167-193: docker compose ps | grep -q "Up".
checkServices ==
    /\ sExit = -1 /\ SetupStep = "ps"
    /\ \E up \in BOOLEAN : sExit' = IF up THEN 0 ELSE 1
    /\ sPc' = sPc + 1
    /\ UNCHANGED <<nvidiaSmi, baseRunOk, cudnnRunOk, GPU_SUPPORT, attempted, built>>
    /\ UNCHANGED <<pollerVars, jobVars, verifyVars, benchVars, viewerVars, uiVars>>

NextSetup ==
    \/ prereqCheck
    \/ detectGPU
    \/ testCudnnImage
    \/ buildRequired
    \/ buildGpuEngine
    \/ startServices
    \/ checkServices

--------------------------------------------------------------------------
(* Part 6: Viewer3D (upload.js 287-607)                                    *)

\* Output paths, as character sequences so that endsWith is computed.
PlyPath == <<"m", ".", "p", "l", "y">>

ObjPath == <<"m", ".", "o", "b", "j">>

GlbPath == <<"m", ".", "g", "l", "b">>

OutputPaths == {PlyPath, ObjPath, GlbPath}

\* String.prototype.endsWith
endsWith(str, suffix) ==
    /\ Len(str) >= Len(suffix)
    /\ SubSeq(str, Len(str) - Len(suffix) + 1, Len(str)) = suffix

NoModel == <<>>

\* initViewer + showPlaceholder: the placeholder cube and the
\* 'Waiting for reconstruction...' overlay.
InitialScene ==
    [placeholder |-> TRUE, pointCloud |-> NoModel, mesh |-> NoModel,
     loading |-> "waiting", errorOverlay |-> FALSE]

\* A tool without a container has no viewer and nothing on the page.
NoScene ==
    [placeholder |-> FALSE, pointCloud |-> NoModel, mesh |-> NoModel,
     loading |-> "none", errorOverlay |-> FALSE]

NoLoad == [path |-> NoModel, outcome |-> "none"]

ViewerIdle ==
    /\ scene = [t \in Tools |-> IF t \in viewers THEN InitialScene ELSE NoScene]
    /\ loads = {}
    /\ lastLoad = [t \in Tools |-> NoLoad]

ViewerOff == viewers = {} /\ ViewerIdle

\* loadModel up to its first await: overlay 'Loading 3D model...', the
\* placeholder and the existing models are removed, then the loader for the
\* file type is started; any other file type throws and the catch block
\* shows the error overlay (showError hides the loading overlay first).
loadModel(tool, outputPath) ==
    /\ [tool |-> tool, path |-> outputPath] \notin loads
    /\ IF tool \notin viewers
       THEN UNCHANGED <<scene, loads, lastLoad>>
       ELSE IF endsWith(outputPath, <<".", "p", "l", "y">>)
               \/ endsWith(outputPath, <<".", "o", "b", "j">>)
            THEN /\ scene' = [scene EXCEPT ![tool] =
                        [@ EXCEPT !.placeholder = FALSE, !.pointCloud = NoModel,
                                  !.mesh = NoModel, !.loading = "loading"]]
                 /\ loads' = loads \cup {[tool |-> tool, path |-> outputPath]}
                 /\ lastLoad' = [lastLoad EXCEPT ![tool] =
                        [path |-> outputPath, outcome |-> "pending"]]
            ELSE /\ scene' = [scene EXCEPT ![tool] =
                        [@ EXCEPT !.placeholder = FALSE, !.pointCloud = NoModel,
                                  !.mesh = NoModel, !.loading = "none",
                                  !.errorOverlay = TRUE]]
                 /\ lastLoad' = [lastLoad EXCEPT ![tool] =
                        [path |-> outputPath, outcome |-> "unsupported"]]
                 /\ UNCHANGED loads
    /\ UNCHANGED viewers
    /\ UNCHANGED <<pollerVars, jobVars, verifyVars, benchVars, setupVars, uiVars>>

\* The loader's callbacks and the rest of loadModel: on success the object
\* is added to the scene (loadPLY: pointCloud, loadOBJ: mesh), the camera is
\* fitted and the loading overlay hidden; on a loader error the catch block
\* shows the error overlay.
loaderDone(l, ok) ==
    /\ l \in loads
    /\ loads' = loads \ {l}
    /\ IF ok
       THEN /\ scene' = [scene EXCEPT ![l.tool] =
                   IF endsWith(l.path, <<".", "p", "l", "y">>)
                   THEN [@ EXCEPT !.pointCloud = l.path, !.loading = "none"]
                   ELSE [@ EXCEPT !.mesh = l.path, !.loading = "none"]]
            /\ lastLoad' = [lastLoad EXCEPT ![l.tool] =
                   [path |-> l.path, outcome |-> "loaded"]]
       ELSE /\ scene' = [scene EXCEPT ![l.tool] =
                   [@ EXCEPT !.loading = "none", !.errorOverlay = TRUE]]
            /\ lastLoad' = [lastLoad EXCEPT ![l.tool] =
                   [path |-> l.path, outcome |-> "failed"]]
    /\ UNCHANGED viewers
    /\ UNCHANGED <<pollerVars, jobVars, verifyVars, benchVars, setupVars, uiVars>>

NextViewer ==
    \/ \E t \in Tools, path \in OutputPaths : loadModel(t, path)
    \/ \E l \in loads, ok \in BOOLEAN : loaderDone(l, ok)

--------------------------------------------------------------------------
(* Part 7: UploadManager, input selection and submit (upload.js 2-185,    *)
(* 235-258).  The page has the upload element, the start button and the   *)
(* upload area.                                                            *)

MaxPondFiles == 1

MaxStarts == 1

\* Two of the seven dataset cards and two resolution options.
DatasetCards == {"bicycle", "bonsai"}

ResolutionOptions == {"images", "images_4"}

\* this.selectedDataset = null
Null == "null"

\* The number of images the service lists for a dataset folder.
ImageCount(d, r) == IF d = "bicycle" THEN 194 ELSE 292

\* The drag-and-drop prompt of the upload area.
Prompt == [kind |-> "prompt"]

\* 'Dataset "<d>" loaded', '<n> images from <r> folder'
Preview(d, r, n) == [kind |-> "preview", dataset |-> d, resolution |-> r, count |-> n]

NoImages == [present |-> FALSE, n |-> 0]

\* The state after the constructor; the checkboxes and the disabled
\* attribute of the button come from the page's markup.
UiIdle ==
    /\ pondFiles = 0
    /\ pondEvent = FALSE
    /\ selectedDataset = Null
    /\ selectedResolution = "images"
    /\ uploadArea = Prompt
    /\ listings = {}
    /\ posts = {}
    /\ alerts = 0

UiOff == UiIdle /\ checkedTools = {} /\ startDisabled = TRUE

\* Mutation of updateUploadStatus: a selected dataset does not count as input.
updateUploadStatus_FilesOnly(files, dataset, tools) ==
    ~(files > 0) \/ Cardinality(tools) = 0

\* updateUploadStatus: the value assigned to startButton.disabled.
updateUploadStatus(files, dataset, tools) ==
    ~(files > 0 \/ dataset # Null) \/ Cardinality(tools) = 0

\* The user drops a file: FilePond puts it into the pond and will fire
\* addfile(error, file); the handler does nothing when error is set.
addFile ==
    /\ pondFiles < MaxPondFiles
    /\ pondFiles' = pondFiles + 1
    /\ \E error \in BOOLEAN : pondEvent' = (pondEvent \/ ~error)
    /\ UNCHANGED <<selectedDataset, selectedResolution, checkedTools,
                   startDisabled, uploadArea, listings, posts, alerts>>
    /\ UNCHANGED <<pollerVars, jobVars, verifyVars, benchVars, setupVars, viewerVars>>

\* The user removes a file from the pond; FilePond will fire removefile.
removeFile ==
    /\ pondFiles > 0
    /\ pondFiles' = pondFiles - 1
    /\ pondEvent' = TRUE
    /\ UNCHANGED <<selectedDataset, selectedResolution, checkedTools,
                   startDisabled, uploadArea, listings, posts, alerts>>
    /\ UNCHANGED <<pollerVars, jobVars, verifyVars, benchVars, setupVars, viewerVars>>

\* The addfile (without error) / removefile handler; further events may
\* still be undelivered afterwards.
pondEventHandler ==
    /\ pondEvent
    /\ startDisabled' = updateUploadStatus(pondFiles, selectedDataset, checkedTools)
    /\ pondEvent' \in BOOLEAN
    /\ UNCHANGED <<pondFiles, selectedDataset, selectedResolution, checkedTools,
                   uploadArea, listings, posts, alerts>>
    /\ UNCHANGED <<pollerVars, jobVars, verifyVars, benchVars, setupVars, viewerVars>>

\* change on a tool checkbox.
toggleTool(t) ==
    /\ checkedTools' = IF t \in checkedTools THEN checkedTools \ {t}
                       ELSE checkedTools \cup {t}
    /\ startDisabled' = updateUploadStatus(pondFiles, selectedDataset, checkedTools')
    /\ UNCHANGED <<pondFiles, pondEvent, selectedDataset, selectedResolution,
                   uploadArea, listings, posts, alerts>>
    /\ UNCHANGED <<pollerVars, jobVars, verifyVars, benchVars, setupVars, viewerVars>>

\* selectDataset(dataset), with loadDatasetImages up to its fetch.
selectDataset(dataset) ==
    /\ selectedDataset' = dataset
    /\ listings' = listings \cup
          {[dataset |-> dataset, resolution |-> selectedResolution']}
    /\ startDisabled' = updateUploadStatus(pondFiles, dataset, checkedTools)
    /\ UNCHANGED <<pondFiles, pondEvent, checkedTools, uploadArea, posts, alerts>>
    /\ UNCHANGED <<pollerVars, jobVars, verifyVars, benchVars, setupVars, viewerVars>>

\* click on a dataset card.
clickDatasetCard(dataset) ==
    /\ selectedResolution' = selectedResolution
    /\ selectDataset(dataset)

\* change on the resolution selector of a dataset card.
changeResolution(dataset, value) ==
    /\ selectedResolution' = value
    /\ selectDataset(dataset)

\* The rest of loadDatasetImages when the listing arrives: the pond is
\* emptied and the preview is written from this.selectedDataset and
\* this.selectedResolution as they are now and the length of the listing
\* that was requested; a failed request is only logged.
listingResponse(l, ok) ==
    /\ l \in listings
    /\ listings' = listings \ {l}
    /\ IF ok
       THEN /\ pondFiles' = 0
            /\ pondEvent' = (pondEvent \/ pondFiles > 0)
            /\ uploadArea' = Preview(selectedDataset, selectedResolution,
                                     ImageCount(l.dataset, l.resolution))
       ELSE UNCHANGED <<pondFiles, pondEvent, uploadArea>>
    /\ UNCHANGED <<selectedDataset, selectedResolution, checkedTools,
                   startDisabled, posts, alerts>>
    /\ UNCHANGED <<pollerVars, jobVars, verifyVars, benchVars, setupVars, viewerVars>>

\* clearImages()
clearImages ==
    /\ pondFiles' = 0
    /\ pondEvent' = (pondEvent \/ pondFiles > 0)
    /\ selectedDataset' = Null
    /\ uploadArea' = Prompt
    /\ startDisabled' = updateUploadStatus(0, Null, checkedTools)
    /\ UNCHANGED <<selectedResolution, checkedTools, listings, posts, alerts>>
    /\ UNCHANGED <<pollerVars, jobVars, verifyVars, benchVars, setupVars, viewerVars>>

\* Mutation of PayloadImages: the images list is always put into the payload.
PayloadImages_Always == [present |-> TRUE, n |-> pondFiles]

\* if (!this.selectedDataset && this.pond) payload.images = ...
PayloadImages ==
    IF selectedDataset = Null THEN [present |-> TRUE, n |-> pondFiles] ELSE NoImages

\* startReconstruction() up to the fetch: click on the enabled start
\* button; the progress elements of the checked tools are reset, the
\* payload is built and posted.  Of the payload the input source is kept
\* (dataset, images); tools, maxResolution and resolution are left out.
startReconstruction ==
    /\ ~startDisabled
    /\ Len(timer) + alerts + Cardinality(posts) < MaxStarts
    /\ resultsVisible' = FALSE
    /\ progressBar' = [t \in Tools |-> IF t \in checkedTools THEN 0 ELSE progressBar[t]]
    /\ statusText' = [t \in Tools |->
          IF t \in checkedTools THEN "Starting..." ELSE statusText[t]]
    /\ posts' = posts \cup {[dataset |-> selectedDataset, images |-> PayloadImages]}
    /\ UNCHANGED <<pondFiles, pondEvent, selectedDataset, selectedResolution,
                   checkedTools, startDisabled, uploadArea, listings, alerts>>
    /\ UNCHANGED <<timer, requests, srv, metricText, viewerModel, handled,
                   lastHandled, showCount, shown>>
    /\ UNCHANGED <<jobVars, verifyVars, benchVars, setupVars, viewerVars>>

\* How the POST can settle: accepted with a jobId, rejected with an error
\* body (JSON without jobId, result.jobId is undefined), fetch rejected, or
\* a body that is not JSON.
SubmitReplies == {"accepted", "rejected", "neterr", "badjson"}

\* The rest of startReconstruction: result = await response.json();
\* this.trackReconstruction(result.jobId); the catch block alerts.
submitReply(payload, kind) ==
    /\ payload \in posts
    /\ posts' = posts \ {payload}
    /\ IF kind \in {"accepted", "rejected"}
       THEN /\ StartTimer
            /\ UNCHANGED alerts
       ELSE /\ alerts' = alerts + 1
            /\ UNCHANGED <<timer, showCount>>
    /\ UNCHANGED <<pondFiles, pondEvent, selectedDataset, selectedResolution,
                   checkedTools, startDisabled, uploadArea, listings>>
    /\ UNCHANGED <<requests, srv, progressBar, statusText, resultsVisible,
                   metricText, viewerModel, handled, lastHandled, shown>>
    /\ UNCHANGED <<jobVars, verifyVars, benchVars, setupVars, viewerVars>>

\* The handlers of the page's input events.
HandledUiEvent ==
    \/ pondEventHandler
    \/ \E t \in Tools : toggleTool(t)
    \/ \E d \in DatasetCards : clickDatasetCard(d)
    \/ \E d \in DatasetCards, r \in ResolutionOptions : changeResolution(d, r)
    \/ clearImages

\* Input selection: the pond, the dataset cards, the tool checkboxes.
NextUI ==
    \/ addFile
    \/ removeFile
    \/ pondEventHandler
    \/ \E t \in Tools : toggleTool(t)
    \/ \E d \in DatasetCards : clickDatasetCard(d)
    \/ \E d \in DatasetCards, r \in ResolutionOptions : changeResolution(d, r)
    \/ \E l \in listings, ok \in BOOLEAN : listingResponse(l, ok)
    \/ clearImages

\* Input selection and submit.
NextSubmit ==
    \/ NextUI
    \/ startReconstruction
    \/ \E payload \in posts, kind \in SubmitReplies : submitReply(payload, kind)

--------------------------------------------------------------------------
(* Specifications                                                          *)

InitPoller ==
    /\ srv \in {<<QueuedJob(Tools)>>, <<QueuedJob({})>>}
    /\ PollerIdle /\ JobsIdle /\ VerifyOff /\ BenchIdle /\ SetupOff /\ ViewerOff /\ UiOff

NextPoller ==
    \/ trackReconstruction
    \/ \E j \in DOMAIN timer : Tick(j)
    \/ \E i \in 1..MaxTicks : Respond(i)
    \/ \E i \in 1..MaxTicks : HandleReply(i)
    \/ \E j \in DOMAIN srv : \E t \in DOMAIN srv[j] : SrvStart(j, t)
    \/ \E j \in DOMAIN srv : \E t \in DOMAIN srv[j] : SrvProgress(j, t)
    \/ \E j \in DOMAIN srv : \E t \in DOMAIN srv[j] : SrvComplete(j, t)
    \/ \E j \in DOMAIN srv : \E t \in DOMAIN srv[j] : SrvFail(j, t)

SpecPoller == InitPoller /\ [][NextPoller]_vars

InitJobs == PollerOff /\ JobsIdle /\ VerifyOff /\ BenchIdle /\ SetupOff /\ ViewerOff /\ UiOff

SpecJobs == InitJobs /\ [][NextJobs]_vars

\* Time passes, the adapter enforces the timeout, and the dispatcher starts a
\* queued job once a slot is free.
FairJobs ==
    /\ SpecJobs
    /\ \A j \in JobIds : WF_vars(clockTick(j))
    /\ \A j \in JobIds : WF_vars(timeout(j))
    /\ \A j \in JobIds : WF_vars(start(j))

\* The script starts against any state of the upstream repositories.
InitVerify ==
    /\ PollerOff /\ JobsIdle /\ BenchIdle /\ SetupOff /\ ViewerOff /\ UiOff /\ VerifyIdle
    /\ remoteHas \in [1..NumChecks -> BOOLEAN]

SpecVerify == InitVerify /\ [][NextVerify]_vars

InitBench == PollerOff /\ JobsIdle /\ VerifyOff /\ BenchIdle /\ SetupOff /\ ViewerOff /\ UiOff

SpecBench == InitBench /\ [][NextBench]_vars

\* The script is a sequential process: its next step is taken (sleep 30
\* returns, curl and python return).  The polls go on: a status the job has
\* reached is eventually read, unless a poll fails first, and a poll of a
\* job the service does not hold fails.  Every job of the Reconstruction
\* Service eventually reaches a terminal status.
FairBench ==
    /\ SpecBench
    /\ WF_vars(checkMethodAvailable)
    /\ WF_vars(postReconstruct)
    /\ WF_vars(pollStatus /\ bPc' = "poll")
    /\ WF_vars(pollStatus /\ bJob[bPair] = "none")
    /\ WF_vars(recordResult)
    /\ WF_vars(generateSummary)
    /\ \A n \in Pairs : WF_vars(benchJobFinish(n))

\* The script starts on any host: with or without the NVIDIA driver and a
\* working GPU runtime for either CUDA image.
InitSetup ==
    /\ PollerOff /\ JobsIdle /\ VerifyOff /\ BenchIdle /\ SetupIdle /\ ViewerOff /\ UiOff
    /\ nvidiaSmi \in BOOLEAN /\ baseRunOk \in BOOLEAN /\ cudnnRunOk \in BOOLEAN

SpecSetup == InitSetup /\ [][NextSetup]_vars

\* Viewer3D.init: a viewer exists for each tool whose container is on the
\* page.
InitViewer ==
    /\ PollerOff /\ JobsIdle /\ VerifyOff /\ BenchIdle /\ SetupOff /\ UiOff
    /\ viewers \in SUBSET Tools
    /\ ViewerIdle

SpecViewer == InitViewer /\ [][NextViewer]_vars

\* Two reconstructions of the same tool started from one page.
InitMulti ==
    /\ srv = <<QueuedJob({"COLMAP"}), QueuedJob({"COLMAP"})>>
    /\ PollerIdle /\ JobsIdle /\ VerifyOff /\ BenchIdle /\ SetupOff /\ ViewerOff /\ UiOff

SpecMulti == InitMulti /\ [][NextPoller]_vars

\* The page as loaded: any checkboxes checked, the start button enabled or
\* not.
InitUI ==
    /\ PollerOff /\ JobsIdle /\ VerifyOff /\ BenchIdle /\ SetupOff /\ ViewerOff
    /\ UiIdle
    /\ checkedTools \in SUBSET Tools
    /\ startDisabled \in BOOLEAN

SpecUI == InitUI /\ [][NextUI]_vars

SpecSubmit == InitUI /\ [][NextSubmit]_vars

--------------------------------------------------------------------------
(* Properties of the Client Poller                                         *)

\* The step is the interval callback consuming a reply.
HandledStep == handled' = handled + 1

\* All texts the poller has put into the page for tool t.
UiTexts(t) ==
    {statusText[t], metricText[t].points, metricText[t].time,
     metricText[t].memory, viewerModel[t]}

\* C1: once the callback has consumed a terminal status response (every tool
\* completed or failed) the polling timer is cancelled, a cancelled timer
\* stays cancelled and no tick issues a further status request; and the
\* timer leaves the active state only in a step that consumed a terminal
\* response or ran into the catch block, never on a successfully processed
\* non-terminal response.
C1_StopsExactlyOnTerminal ==
    [][ \A j \in DOMAIN timer :
          /\ (HandledStep /\ lastHandled'.job = j /\ IsTerminalReply(lastHandled'))
                => timer'[j] = "cleared"
          /\ timer[j] = "cleared" =>
                /\ timer'[j] = "cleared"
                /\ Len(requests') > Len(requests) => requests'[Len(requests')].job # j
          /\ (timer[j] = "active" /\ timer'[j] # "active") =>
                /\ HandledStep /\ lastHandled'.job = j
                /\ IsTerminalReply(lastHandled') \/ Throws(lastHandled')
      ]_vars

\* C1 witness: a terminal response has been consumed and cancelled the timer
\* while the tick budget was not yet used up.
C1_Witness ==
    /\ timer = <<"cleared">>
    /\ IsTerminalReply(lastHandled)
    /\ DOMAIN lastHandled.tools = Tools
    /\ Len(requests) < MaxTicks

\* C2 (as claimed): a status request that fails in transit (network error or
\* unreadable body) leaves the polling timer as it was.
C2_TransientFailureKeepsTimer ==
    [][ (HandledStep /\ lastHandled'.kind \in {"neterr", "badjson"})
            => timer' = timer ]_vars

\* C3 (as claimed): after showResults ran on a terminal status, every tool the
\* status reports as failed has its error text in some UI element.
C3_ErrorTextSurfaced ==
    shown.kind = "ok" =>
        \A t \in DOMAIN shown.tools :
            shown.tools[t].status = "failed" => shown.tools[t].error \in UiTexts(t)

\* C4 (as claimed): the width written to a tool's progress bar never
\* decreases from one UI update to the next.
C4_ProgressBarMonotone ==
    [][ \A t \in Tools : progressBar'[t] >= progressBar[t] ]_vars

\* C14 (as claimed): for a tracked job showResults runs at most once, and
\* once it has run no further reply of that job is processed into the page
\* (no progress/status update, no second showResults).
C14_ShowResultsOnceAndLast ==
    [][ \A j \in DOMAIN showCount :
          showCount[j] >= 1 =>
             /\ showCount'[j] = showCount[j]
             /\ ~(HandledStep /\ lastHandled'.job = j /\ ~Throws(lastHandled'))
      ]_vars

\* C15 (as claimed): consuming a snapshot that omits the tools field, of a
\* job that is not terminal, leaves the polling timers as they were.
C15_MissingToolsKeepsPolling ==
    [][ (/\ HandledStep
         /\ lastHandled'.kind = "notools"
         /\ lastHandled'.status \notin {"completed", "failed"})
            => timer' = timer ]_vars

\* C16: consuming a readable snapshot whose tools map is empty cancels the
\* job's timer and runs showResults, which reveals the results section and
\* displays nothing for any tool, whatever the job-level status says.
C16_EmptyToolsIsTerminal ==
    [][ (HandledStep /\ lastHandled'.kind = "ok" /\ DOMAIN lastHandled'.tools = {})
          => /\ timer'[lastHandled'.job] = "cleared"
             /\ showCount'[lastHandled'.job] = showCount[lastHandled'.job] + 1
             /\ shown' = lastHandled'
             /\ resultsVisible'
             /\ metricText' = metricText /\ viewerModel' = viewerModel
             /\ progressBar' = progressBar /\ statusText' = statusText
      ]_vars

\* C16 witness: an empty tools map reported with job-level status running
\* has ended polling and shown the (empty) results.
C16_Witness ==
    /\ lastHandled.kind = "ok"
    /\ DOMAIN lastHandled.tools = {}
    /\ lastHandled.status = "running"
    /\ timer = <<"cleared">>
    /\ showCount = <<1>>
    /\ resultsVisible

\* C17: starting another poller leaves the timers of the earlier ones as
\* they are; a poller's timer leaves the active state only in a step that
\* consumed a terminal response of its own job or ran into the catch block
\* for its own request; and every poller's processed reply is written to
\* the one progress bar and status text of each tool it reports.
C17_IndependentPollers ==
    [][ /\ \A j \in DOMAIN timer :
             /\ Len(timer') > Len(timer) => timer'[j] = timer[j]
             /\ (timer[j] = "active" /\ timer'[j] # "active") =>
                   /\ HandledStep /\ lastHandled'.job = j
                   /\ IsTerminalReply(lastHandled') \/ Throws(lastHandled')
        /\ (HandledStep /\ ~Throws(lastHandled')) =>
              \A t \in DOMAIN lastHandled'.tools :
                 /\ progressBar'[t] = lastHandled'.tools[t].progress
                 /\ statusText'[t] = lastHandled'.tools[t].status
      ]_vars

\* C17 witness: two pollers are active at once, the first one started
\* before the second, and a reply of the second job was written to the
\* page after a reply of the first.
C17_Witness ==
    /\ timer = <<"active", "active">>
    /\ handled = 2
    /\ requests[1].job = 1 /\ requests[1].phase = "handled"
    /\ lastHandled.kind = "ok" /\ lastHandled.job = 2
    /\ statusText["COLMAP"] = "running"

--------------------------------------------------------------------------
(* Properties of the job lifecycle                                         *)

AllowedTransitions ==
    {<<"none", "queued">>, <<"queued", "running">>, <<"running", "completed">>,
     <<"running", "failed">>, <<"queued", "failed">>}

\* C5: a job's status changes only along queued -> running,
\* running -> completed, running -> failed and queued -> failed (after its
\* creation as queued); nothing goes backward, and once a job is completed or
\* failed its record, and with it the snapshot getStatus returns, never
\* changes again.
C5_ForwardTransitionsOnly ==
    [][ \A j \in JobIds :
          /\ jobs'[j].status # jobs[j].status =>
                <<jobs[j].status, jobs'[j].status>> \in AllowedTransitions
          /\ IsTerminal(j) => (jobs'[j] = jobs[j] /\ getStatus(j)' = getStatus(j))
      ]_vars

\* C5 witness: one job completed, another failed while running was possible.
C5_Witness ==
    \E j, k \in JobIds :
        /\ jobs[j].status = "completed"
        /\ jobs[k].status = "failed" /\ jobs[k].error = "timeout"

\* C6: every job that enters running eventually reaches a terminal state;
\* the timeout forces failed, so no job stays running forever.
C6_RunningEventuallyTerminal ==
    \A j \in JobIds : (jobs[j].status = "running") ~> IsTerminal(j)

\* C6 witness: a job was forced to failed by the timeout.
C6_Witness ==
    \E j \in JobIds :
        jobs[j].status = "failed" /\ jobs[j].error = "timeout"
                                  /\ elapsed[j] = TimeoutSteps

\* C7: never more than MAX_CONCURRENT_JOBS jobs are running; a queued job
\* enters running only in a step that starts with a free slot, so it stays
\* queued while the ceiling is reached; and a queued job does not stay queued
\* forever: it progresses to running (or is failed by a launch error or a
\* cancel).
C7_ConcurrencyCeiling ==
    /\ [](Cardinality(Running) <= MAX_CONCURRENT_JOBS)
    /\ [][ \A j \in JobIds :
             (jobs[j].status = "queued" /\ jobs'[j].status = "running")
                => Cardinality(Running) < MAX_CONCURRENT_JOBS ]_vars
    /\ \A j \in JobIds :
          (jobs[j].status = "queued") ~> (jobs[j].status \in {"running", "failed"})

\* C7 witness: the ceiling is reached and a further job waits in queued.
C7_Witness ==
    /\ Cardinality(Running) = MAX_CONCURRENT_JOBS
    /\ \E j \in JobIds : jobs[j].status = "queued"

--------------------------------------------------------------------------
(* Properties of verify-versions.sh                                        *)

FailedRefs == {i \in 1..NumChecks : ~remoteHas[i]}

\* C8: when the script has ended, its exit status is 0 if and only if all
\* seven pinned-version checks succeed; with at least one failing check the
\* exit status is non-zero.
C8_ExitZeroIffAllValid ==
    vvExit # -1 => (vvExit = 0 <=> FailedRefs = {})

\* C8 witness: OpenMVG is valid, a later check failed and the script ended
\* with a non-zero status.
C8_Witness ==
    /\ vvExit = 1
    /\ remoteHas[1]
    /\ failed_checks = 1

\* C9 (as claimed): when the script has ended every one of the seven checks
\* was performed, and after a failure the printed number of failed checks is
\* the number of checks that failed.
C9_AllChecksRunAndCounted ==
    vvExit # -1 =>
        /\ performed = 1..NumChecks
        /\ FailedRefs # {} => printedFailed = Cardinality(FailedRefs)

--------------------------------------------------------------------------
(* Properties of benchmark.sh                                              *)

\* C10 (as claimed): when the script has ended, for every (dataset, method)
\* pair a reconstruct request was issued if and only if
\* check_method_available reported the method as Up, and every pair with a
\* request has its result file, with status completed or failed.
C10_AllAvailableBenchmarked ==
    bPc \in {"done", "aborted"} =>
        \A n \in Pairs :
            /\ n \in posted <=> available[n] = "up"
            /\ n \in posted => resultFile[n] \in {"completed", "failed"}

\* C21: the jobs of the script run strictly one after another.  Requests
\* are issued in loop order; when the script is at a pair, the polling loop
\* of every pair whose request was sent before has observed completed or
\* failed (its result file holds that status, which is the status of its
\* job), so at most one job submitted by the script is queued or running.
C21_OneJobAtATime ==
    /\ \A n \in posted : n <= bPair
    /\ \A n \in posted :
          n < bPair => resultFile[n] \in Terminal /\ bJob[n] = resultFile[n]
    /\ Cardinality({n \in Pairs : bJob[n] \in NonTerminal}) <= 1

\* C21 witness: the job of a second pair is running, the loop of the first
\* pair having observed completed.
C21_Witness ==
    \E n, m \in posted :
        /\ n < m
        /\ resultFile[n] = "completed"
        /\ bPc = "poll" /\ bPair = m /\ bJob[m] = "running"

\* C22: the polling loop has no bound of its own.  The script gets past the
\* loop only from a state in which a poll has observed completed or failed,
\* and once a poll has observed that, the loop polls no more and the script
\* gets past it; as long as the job of a pair is queued or running the
\* script stays at that pair, in the loop (or was ended there by set -e).
\* If every submitted job eventually reaches a terminal status, the script
\* terminates.
C22_LoopEndsOnlyOnTerminalStatus ==
    /\ [][(bPc = "poll" /\ bPc' \notin {"poll", "aborted"})
              => bStatus \in Terminal]_vars
    /\ [][(bPc = "poll" /\ bStatus \in Terminal)
              => (bStatus' = bStatus /\ bPc' # "aborted")]_vars
    /\ (bPc = "poll" /\ bStatus \in Terminal) ~> (bPc # "poll")
    /\ [](\A n \in Pairs :
            bJob[n] \in NonTerminal => bPair = n /\ bPc \in {"poll", "aborted"})
    /\ <>(bExit # -1)

\* C22 witness: the script has ended normally, its loops having observed
\* completed for one pair and failed for another.
C22_Witness ==
    /\ bExit = 0
    /\ \E n, m \in Pairs : resultFile[n] = "completed" /\ resultFile[m] = "failed"

\* C23: when a status poll yields nothing readable (status is left empty by
\* the failed assignment), the script has ended there with a non-zero exit
\* status: the pair has no result file, no later pair was checked,
\* requested or recorded, and no summary was generated; an ended script
\* does nothing more.
C23_UnreadablePollAborts ==
    /\ [](bStatus = "" =>
            /\ bPc = "aborted"
            /\ bExit \notin {-1, 0}
            /\ resultFile[bPair] = "none"
            /\ \A n \in Pairs :
                  n > bPair => /\ available[n] = "unchecked"
                               /\ n \notin posted
                               /\ resultFile[n] = "none"
            /\ ~summaryWritten)
    /\ [][bPc = "aborted" =>
            UNCHANGED <<bPc, bPair, available, posted, bStatus, resultFile,
                        summaryWritten, bExit>>]_vars

\* C23 witness: the first pair was recorded; a poll of the second pair, whose
\* job is running, was unreadable, with pairs still to come.
C23_Witness ==
    /\ bStatus = "" /\ bPc = "aborted"
    /\ bPair = 2 /\ bPair < NumPairs
    /\ resultFile[1] \in Terminal
    /\ bJob[2] = "running"

--------------------------------------------------------------------------
(* Properties of setup.sh                                                  *)

\* C11: a GPU-dependent engine is built only if nvidia-smi is present and
\* the GPU runs of the CUDA base image and of the cudnn-devel image both
\* succeeded; the CPU engines are built whatever the GPU support is: once
\* the script is past the engine builds all four CPU engines are built.
C11_GpuEnginesOnlyWithGpu ==
    /\ \A e \in GpuEngines :
          e \in attempted => (nvidiaSmi /\ baseRunOk /\ cudnnRunOk)
    /\ SetupStep \in {"up", "ps", "end"} => CpuEngines \subseteq built

\* C11 witness: the driver is present but the cudnn-devel run failed; the
\* script got past the engine builds with the CPU engines built.
C11_Witness ==
    /\ nvidiaSmi /\ baseRunOk /\ ~cudnnRunOk
    /\ SetupStep = "up"
    /\ CpuEngines \subseteq built

--------------------------------------------------------------------------
(* Properties of Viewer3D                                                  *)

HasModel(t) == scene[t].pointCloud # NoModel \/ scene[t].mesh # NoModel

\* C12: for a tool whose viewer exists, once loadModel for an output path
\* ending in .ply, .obj or .glb is over (and the file itself was served),
\* a model is attached to the viewer and no error overlay is shown.
C12_SupportedFormatsLoad ==
    \A t \in viewers :
        (/\ lastLoad[t].outcome \in {"loaded", "unsupported"}
         /\ \/ endsWith(lastLoad[t].path, <<".", "p", "l", "y">>)
            \/ endsWith(lastLoad[t].path, <<".", "o", "b", "j">>)
            \/ endsWith(lastLoad[t].path, <<".", "g", "l", "b">>))
        => (HasModel(t) /\ ~scene[t].errorOverlay)

--------------------------------------------------------------------------
(* Properties of the UploadManager's input selection and submit            *)

\* C13 (as claimed): when the reconstruct request is answered with an
\* error body that carries no jobId, no polling timer is started and the
\* user is told that starting failed.
C13_RejectedSubmitStartsNoPolling ==
    [][ (\E payload \in posts : submitReply(payload, "rejected"))
            => (timer' = timer /\ alerts' = alerts + 1) ]_vars

\* C18: a submitted payload carries an images list exactly when its
\* dataset is null, so never both a non-null dataset and an images list.
C18_OneInputSource ==
    \A payload \in posts :
        /\ ~(payload.dataset # Null /\ payload.images.present)
        /\ payload.images.present <=> payload.dataset = Null

\* C18 witness: a payload posted with a dataset selected while files are in
\* the pond; it names the dataset and carries no images list.
C18_Witness ==
    /\ pondFiles > 0
    /\ \E payload \in posts :
          payload.dataset \in DatasetCards /\ ~payload.images.present

\* C19: after every handled UI event (addfile without error or removefile
\* delivered, tool checkbox toggled, dataset or resolution selected, images
\* cleared) the start button is enabled iff at least one tool is checked
\* and the pond holds a file or a dataset is selected.
C19_StartButtonMatchesSelection ==
    [][ HandledUiEvent =>
          (~startDisabled' <=>
              (checkedTools' # {} /\ (pondFiles' >= 1 \/ selectedDataset' # Null)))
      ]_vars

\* C19 witness: the button is enabled with an empty pond because a dataset
\* is selected and a tool is checked, no pond event being outstanding.
C19_Witness ==
    /\ ~startDisabled
    /\ ~pondEvent
    /\ pondFiles = 0
    /\ selectedDataset \in DatasetCards
    /\ checkedTools # {}

\* C20 (as claimed, and required only once no listing request is in
\* flight): with no dataset selected the upload area shows the
\* drag-and-drop prompt, and a preview names the selected dataset with the
\* image count of that dataset at the selected resolution.
C20_PreviewMatchesSelection ==
    listings = {} =>
        /\ selectedDataset = Null => uploadArea = Prompt
        /\ uploadArea.kind = "preview" =>
              /\ uploadArea.dataset = selectedDataset
              /\ uploadArea.count = ImageCount(selectedDataset, selectedResolution)

====
